---------------------------- MODULE Spec2Model ----------------------------
(***************************************************************************)
(* A model of tree-for-ai (src/src/main.rs): the relevance and secrecy     *)
(* filter, the discovery step of main, and the tree builder and renderer.  *)
(*                                                                         *)
(* Strings are sequences of characters; a character is a one-character     *)
(* string (or, for the two non-ASCII letters, a name), with its Unicode    *)
(* code point given by Code and its lowercase by LowerChar.                *)
(***************************************************************************)
EXTENDS Naturals, Sequences, FiniteSets, TLC

VARIABLES
    \* ---- main (main.rs:81-163)
    args,        \* the parsed command line
    cwd,         \* std::env::current_dir()
    start,       \* main.rs:84-88
    git_root,    \* Option<PathBuf>: {} is None, {p} is Some(p)
    root,        \* the root: a path, the sequence of its components
    files,       \* the file list, a sequence of absolute paths
    listed_by,   \* which of list_files_git ("git") and list_files_fs ("fs")
                 \* returned the list in files
    git_q1,      \* how the first git ls-files ended; "none" if not run
    git_q2,      \* how the second git ls-files ended; "none" if not run
    max_depth,   \* args.max_depth, an Option<usize>: {} is None
    tree,        \* the TreeNode built from files
    mode,        \* the mode reported in the header or the JSON payload
    text,        \* render_tree_text's result for tree
    pc,          \* where main is
    \* ---- the same paths built and rendered in another order
    pathSet,     \* the distinct absolute file paths of the run
    filesB,      \* pathSet in some order
    treeB,       \* the tree built from filesB
    textB,       \* render_tree_text's result for treeB
    pcB,         \* "start", "built", "rendered"
    \* ---- one path through the filter (is_secret_path, is_relevant_path)
    fpath,       \* the path
    opts,        \* FilterOptions
    secret,      \* is_secret_path(fpath)
    relevant,    \* is_relevant_path(fpath, opts)
    fpc          \* "start", "checked", "retained"

mainVars == <<args, cwd, start, git_root, listed_by, git_q1, git_q2, mode>>
treeVars == <<root, files, max_depth, tree, text, pc>>
orderVars == <<pathSet, filesB, treeB, textB, pcB>>
filterVars == <<fpath, opts, secret, relevant, fpc>>
vars == <<mainVars, treeVars, orderVars, filterVars>>

-----------------------------------------------------------------------------
(* Characters and strings *)

Uppers == <<"A","B","C","D","E","F","G","H","I","J","K","L","M",
            "N","O","P","Q","R","S","T","U","V","W","X","Y","Z">>
Lowers == <<"a","b","c","d","e","f","g","h","i","j","k","l","m",
            "n","o","p","q","r","s","t","u","v","w","x","y","z">>
Digits == <<"0","1","2","3","4","5","6","7","8","9">>

Range(s) == {s[i] : i \in DOMAIN s}
IndexOf(s, c) == CHOOSE i \in DOMAIN s : s[i] = c

\* U+00E9 and U+00C9: letters outside ASCII
EAcute == "e-acute"
EAcuteUpper == "E-ACUTE"

Chars == Range(Uppers) \cup Range(Lowers) \cup Range(Digits)
           \cup {" ", "-", ".", "/", "_", "\n", EAcute, EAcuteUpper}

\* The Unicode code point of a character
Code == [c \in Chars |->
    IF c \in Range(Uppers) THEN 64 + IndexOf(Uppers, c)
    ELSE IF c \in Range(Lowers) THEN 96 + IndexOf(Lowers, c)
    ELSE IF c \in Range(Digits) THEN 47 + IndexOf(Digits, c)
    ELSE CASE c = "\n" -> 10
           [] c = " " -> 32
           [] c = "-" -> 45
           [] c = "." -> 46
           [] c = "/" -> 47
           [] c = "_" -> 95
           [] c = EAcuteUpper -> 201
           [] c = EAcute -> 233]

\* char::to_lowercase
LowerChar == [c \in Chars |->
    IF c \in Range(Uppers) THEN Lowers[IndexOf(Uppers, c)]
    ELSE IF c = EAcuteUpper THEN EAcute
    ELSE c]

\* str::to_lowercase
to_lowercase(s) == [i \in DOMAIN s |-> LowerChar[s[i]]]

\* Ord for str: byte order of the UTF-8 encoding, which is code point order
RECURSIVE StrLess(_, _)
StrLess(a, b) ==
    IF a = << >> THEN b # << >>
    ELSE IF b = << >> THEN FALSE
    ELSE IF Code[Head(a)] < Code[Head(b)] THEN TRUE
    ELSE IF Code[Head(a)] > Code[Head(b)] THEN FALSE
    ELSE StrLess(Tail(a), Tail(b))

StrLeq(a, b) == a = b \/ StrLess(a, b)

\* " ".repeat(n)
repeat(c, n) == [i \in 1..n |-> c]

\* lines.join(sep)
RECURSIVE join(_, _)
join(lines, sep) ==
    IF lines = << >> THEN << >>
    ELSE IF Len(lines) = 1 THEN lines[1]
    ELSE lines[1] \o sep \o join(Tail(lines), sep)

-----------------------------------------------------------------------------
(* Paths.  A path is the sequence of its components, each a string; the    *)
(* paths of the model end in a normal, valid UTF-8 component.              *)

\* Path::file_name
file_name(p) == p[Len(p)]

\* Path::extension of a file name, as an Option: {} is None.  The part
\* after the last ".", unless there is no "." or the only one is first.
extension(name) ==
    LET dots == {i \in DOMAIN name : name[i] = "."}
    IN  IF dots = {} THEN {}
        ELSE LET k == CHOOSE i \in dots : \A j \in dots : j <= i
             IN  IF k = 1 THEN {} ELSE {SubSeq(name, k + 1, Len(name))}

starts_with(s, pre) == Len(s) >= Len(pre) /\ SubSeq(s, 1, Len(pre)) = pre
ends_with(s, suf) ==
    Len(s) >= Len(suf) /\ SubSeq(s, Len(s) - Len(suf) + 1, Len(s)) = suf

-----------------------------------------------------------------------------
(* is_secret_path *)

DotEnv == <<".","e","n","v">>
SecretWord == <<"s","e","c","r","e","t">>

\* the character class [^a-z]
NotAToZ(c) == ~(Code[c] >= Code["a"] /\ Code[c] <= Code["z"])

\* the regex without the boundary on the right
secret_re_no_right_boundary(s) ==
    \E k \in 1..Len(s) :
        /\ k = 1 \/ NotAToZ(s[k - 1])
        /\ k + 5 <= Len(s)
        /\ SubSeq(s, k, k + 5) = SecretWord

\* Regex (?:^|[^a-z])secrets?(?:$|[^a-z]), is_match: "secret" starts at some
\* k, at the start of s or after a character of [^a-z]; an optional "s"
\* follows; then s ends or a character of [^a-z] comes.
secret_re_is_match(s) ==
    \E k \in 1..Len(s) :
        /\ k = 1 \/ NotAToZ(s[k - 1])
        /\ k + 5 <= Len(s)
        /\ SubSeq(s, k, k + 5) = SecretWord
        /\ \E e \in {k + 6} \cup (IF k + 6 <= Len(s) /\ s[k + 6] = "s"
                                   THEN {k + 7} ELSE {}) :
              e = Len(s) + 1 \/ (e <= Len(s) /\ NotAToZ(s[e]))

is_secret_path(p) ==
    LET fname == to_lowercase(file_name(p))
    IN  \/ fname = DotEnv
        \/ starts_with(fname, DotEnv \o <<".">>)
        \/ secret_re_is_match(fname)

-----------------------------------------------------------------------------
(* is_relevant_path *)

\* deny_files (main.rs:294)
deny_files == {
    <<".","d","s","_","s","t","o","r","e">>,
    <<"t","h","u","m","b","s",".","d","b">>}

\* lock_names (main.rs:300-306)
lock_names == {
    <<"y","a","r","n",".","l","o","c","k">>,
    <<"p","a","c","k","a","g","e","-","l","o","c","k",".","j","s","o","n">>,
    <<"p","n","p","m","-","l","o","c","k",".","y","a","m","l">>,
    <<"p","i","p","f","i","l","e",".","l","o","c","k">>,
    <<"p","o","e","t","r","y",".","l","o","c","k">>}

\* relevant_exts (main.rs:322-337)
relevant_exts == {
    <<"m","d">>, <<"r","s","t">>, <<"a","d","o","c">>, <<"t","x","t">>,
    <<"j","s","o","n">>, <<"j","s","o","n","c">>, <<"y","a","m","l">>,
    <<"y","m","l">>, <<"t","o","m","l">>, <<"i","n","i">>, <<"c","f","g">>,
    <<"c","o","n","f">>, <<"e","n","v">>,
    <<"p","r","o","p","e","r","t","i","e","s">>, <<"h","t","m","l">>,
    <<"h","t","m">>, <<"c","s","s">>, <<"s","c","s","s">>,
    <<"l","e","s","s">>, <<"r","s">>, <<"p","y">>, <<"p","y","i">>,
    <<"i","p","y","n","b">>, <<"j","s">>, <<"c","j","s">>, <<"m","j","s">>,
    <<"j","s","x">>, <<"t","s">>, <<"t","s","x">>, <<"s","h">>,
    <<"b","a","s","h">>, <<"z","s","h">>, <<"p","s","1">>, <<"b","a","t">>,
    <<"c","m","d">>, <<"g","o">>, <<"j","a","v","a">>, <<"k","t">>,
    <<"k","t","s">>, <<"c">>, <<"h">>, <<"c","p","p">>, <<"h","p","p">>,
    <<"c","c">>, <<"h","h">>, <<"c","s">>, <<"v","b">>, <<"p","h","p">>,
    <<"r","b">>, <<"s","w","i","f","t">>, <<"s","c","a","l","a">>,
    <<"e","r","l">>, <<"e","x">>, <<"e","x","s">>, <<"s","q","l">>,
    <<"p","r","i","s","m","a">>, <<"g","r","a","p","h","q","l">>,
    <<"g","q","l">>, <<"g","r","a","d","l","e">>, <<"g","r","o","o","v","y">>,
    <<"t","f">>, <<"s","l","n">>, <<"c","s","p","r","o","j">>,
    <<"f","s","p","r","o","j">>, <<"v","b","p","r","o","j">>,
    <<"v","c","x","p","r","o","j">>,
    <<"e","d","i","t","o","r","c","o","n","f","i","g">>,
    <<"g","i","t","a","t","t","r","i","b","u","t","e","s">>,
    <<"g","i","t","i","g","n","o","r","e">>,
    <<"e","s","l","i","n","t","i","g","n","o","r","e">>,
    <<"p","r","e","t","t","i","e","r","i","g","n","o","r","e">>}

\* asset_exts (main.rs:338-343)
asset_exts == {
    <<"p","n","g">>, <<"j","p","g">>, <<"j","p","e","g">>, <<"g","i","f">>,
    <<"s","v","g">>, <<"w","e","b","p">>, <<"i","c","o">>, <<"b","m","p">>,
    <<"t","i","f","f">>, <<"m","p","3">>, <<"w","a","v">>,
    <<"f","l","a","c">>, <<"m","p","4">>, <<"m","o","v">>, <<"m","k","v">>,
    <<"a","v","i">>, <<"w","o","f","f">>, <<"w","o","f","f","2">>,
    <<"e","o","t">>, <<"t","t","f">>, <<"o","t","f">>, <<"p","d","f">>,
    <<"z","i","p">>, <<"t","a","r">>, <<"g","z">>, <<"t","g","z">>,
    <<"b","z","2">>, <<"7","z">>, <<"r","a","r">>}

\* special (main.rs:347)
special == {
    <<"D","o","c","k","e","r","f","i","l","e">>,
    <<"M","a","k","e","f","i","l","e">>,
    <<"d","o","c","k","e","r","f","i","l","e">>,
    <<"D","o","c","k","e","r","f","i","l","e",".","d","e","v">>}

\* the rule of main.rs:313 with the flag read the wrong way round
secret_rule_inverted(p, fo) == fo.hide_secrets /\ is_secret_path(p)

\* main.rs:313: secrets are not hidden and the name is secret-like
secret_rule(p, fo) == ~fo.hide_secrets /\ is_secret_path(p)

is_relevant_path(p, fo) ==
    LET name == file_name(p)
        lower == to_lowercase(name)
    IN  IF lower \in deny_files THEN FALSE
        ELSE IF ends_with(lower, <<".","l","o","c","k">>) \/ lower \in lock_names
        THEN FALSE
        ELSE IF secret_rule(p, fo) THEN TRUE
        ELSE IF fo.include_binaries THEN TRUE
        ELSE IF name \in special THEN TRUE
        ELSE \E e \in extension(name) :
                \/ to_lowercase(e) \in relevant_exts
                \/ fo.include_assets /\ to_lowercase(e) \in asset_exts

FilterOptions == [include_assets : BOOLEAN, include_binaries : BOOLEAN,
                  hide_secrets : BOOLEAN]

-----------------------------------------------------------------------------
(* The tree: struct TreeNode {name, dirs, files}.                          *)
(* A tree is a record [name, files]: name is the root node's name and      *)
(* files maps the path of every node (the sequence of directory names      *)
(* leading to it from the root node, << >> for the root node) to that      *)
(* node's files vector.  A node's dirs map holds the nodes one name        *)
(* longer; a node's own name is the last name of its path.                 *)

INDENT_SPACES == 5

\* TreeNode::new for the root node
TreeNew(name) == [name |-> name, files |-> (<< >> :> << >>)]

\* the keys of node n's dirs map (a BTreeMap: iterated in key order)
DirKeys(fs, n) ==
    {d[Len(d)] : d \in {e \in DOMAIN fs : Len(e) = Len(n) + 1
                                           /\ SubSeq(e, 1, Len(n)) = n}}

\* Path::strip_prefix(root).unwrap_or(p)
strip_prefix(p, r) ==
    IF Len(p) >= Len(r) /\ SubSeq(p, 1, Len(r)) = r
    THEN SubSeq(p, Len(r) + 1, Len(p))
    ELSE p

\* root.file_name() or, for a root without one ("/"), the root string
root_name(r) == IF r = << >> THEN <<"/">> ELSE r[Len(r)]

\* The inner loop of build_tree (main.rs:400-419) from component i on,
\* with the cursor at node cur.
\* the file is kept only strictly above the limit
file_within_strict(depth, md) == \A m \in md : depth < m

\* max_depth.map(|m| depth <= m).unwrap_or(true) (main.rs:406)
file_within(depth, md) == \A m \in md : depth <= m

\* the descent stops one directory early
dir_beyond_early(depth, md) == \E m \in md : depth >= m

\* max_depth.map(|m| depth > m).unwrap_or(false) (main.rs:411)
dir_beyond(depth, md) == \E m \in md : depth > m

RECURSIVE InsertParts(_, _, _, _, _)
InsertParts(fs, cur, parts, i, md) ==
    IF i > Len(parts) THEN fs
    ELSE IF i = Len(parts)
    THEN \* is_last: depth = parts.len()
         IF file_within(Len(parts), md)
         THEN [fs EXCEPT ![cur] = Append(@, parts[i])]
         ELSE fs
    ELSE \* a directory component, depth = i
         IF dir_beyond(i, md)
         THEN fs \* break
         ELSE LET next == Append(cur, parts[i])
                  fs1 == IF next \in DOMAIN fs THEN fs ELSE fs @@ (next :> << >>)
              IN  InsertParts(fs1, next, parts, i + 1, md)

\* One iteration of `for p in paths` (main.rs:396-420)
InsertPath(t, p, r, md) ==
    [t EXCEPT !.files = InsertParts(@, << >>, strip_prefix(p, r), 1, md)]

RECURSIVE InsertAll(_, _, _, _)
InsertAll(t, paths, r, md) ==
    IF paths = << >> THEN t
    ELSE InsertAll(InsertPath(t, Head(paths), r, md), Tail(paths), r, md)

build_tree(paths, r, md) == InsertAll(TreeNew(root_name(r)), paths, r, md)

-----------------------------------------------------------------------------
(* render_tree_text *)

\* The keys of a BTreeMap<String, _> in iteration order
RECURSIVE SortedKeys(_)
SortedKeys(S) ==
    IF S = {} THEN << >>
    ELSE LET least == CHOOSE k \in S : \A o \in S : StrLeq(k, o)
         IN  <<least>> \o SortedKeys(S \ {least})

\* the names compared as they are
RawLeq(a, b) == StrLeq(a, b)

\* a.to_lowercase().cmp(&b.to_lowercase()) is not Greater
LowerLeq(a, b) == StrLeq(to_lowercase(a), to_lowercase(b))

\* sort_unstable_by with that comparison.  For slices of at most 20
\* elements the standard library sorts by insertion, which this is.
RECURSIVE InsertSorted(_, _)
InsertSorted(sorted, x) ==
    IF sorted = << >> THEN <<x>>
    ELSE LET last == sorted[Len(sorted)]
         IN  IF LowerLeq(last, x) THEN Append(sorted, x)
             ELSE Append(InsertSorted(SubSeq(sorted, 1, Len(sorted) - 1), x), last)

RECURSIVE SortFilesFrom(_, _, _)
SortFilesFrom(sorted, v, i) ==
    IF i > Len(v) THEN sorted
    ELSE SortFilesFrom(InsertSorted(sorted, v[i]), v, i + 1)

\* the files left in insertion order
sort_files_skipped(v) == v

sort_files(v) == SortFilesFrom(<< >>, v, 1)

\* max_depth.map(|m| level + 1 < m).unwrap_or(true) (main.rs:439)
descend(level, md) == \A m \in md : level + 1 < m

\* v.name of the node at path n
NodeName(t, n) == IF n = << >> THEN t.name ELSE n[Len(n)]

DirLine(name, level, indent) == repeat(" ", indent * (level + 1)) \o name \o <<"/">>
FileLine(name, level, indent) == repeat(" ", indent * (level + 1)) \o name

\* rec (main.rs:426-449) on the node at path n of tree t: the record
\* [tree, lines] of the tree (each visited node's files sorted in place)
\* and the lines pushed so far.  RecDirs is its loop over n.dirs, from the
\* k-th key on.
RECURSIVE rec(_, _, _, _, _, _)
RECURSIVE RecDirs(_, _, _, _, _, _, _, _)
RecDirs(t, lines, n, keys, k, level, indent, md) ==
    IF k > Len(keys) THEN [tree |-> t, lines |-> lines]
    ELSE LET v == Append(n, keys[k])
             pushed == Append(lines, DirLine(NodeName(t, v), level, indent))
             sub == IF descend(level, md)
                    THEN rec(t, pushed, v, level + 1, indent, md)
                    ELSE [tree |-> t, lines |-> pushed]
         IN  RecDirs(sub.tree, sub.lines, n, keys, k + 1, level, indent, md)

rec(t, lines, n, level, indent, md) ==
    LET lines0 == IF level = 0 THEN Append(lines, NodeName(t, n) \o <<"/">>)
                  ELSE lines
        afterDirs == RecDirs(t, lines0, n, SortedKeys(DirKeys(t.files, n)), 1,
                             level, indent, md)
        sorted == sort_files(afterDirs.tree.files[n])
    IN  [tree |-> [afterDirs.tree EXCEPT !.files[n] = sorted],
         lines |-> afterDirs.lines
                     \o [i \in DOMAIN sorted |-> FileLine(sorted[i], level, indent)]]

\* render_tree_text: the record [tree, text] of the tree as it leaves the
\* call (it is taken by &mut) and the string returned
render_tree_text(t, indent, md) ==
    LET r == rec(t, << >>, << >>, 0, indent, md)
    IN  [tree |-> r.tree, text |-> join(r.lines, <<"\n">>)]

-----------------------------------------------------------------------------
(* The tree specification: main from the sorted list on (main.rs:119-157), *)
(* and a second build and render of the same paths in another order.       *)

MaxPaths == 2
MaxComponents == 2

DirNames == {<<"B">>, <<"a", "b">>}
FileNames == {<<"a">>, <<"A">>, <<"B">>}
Roots == {<< >>, <<<<"p", "r", "o", "j">>>>}

\* relative paths of n components: n - 1 directories and a file name
RelPathsOf(n) == {d \o <<f>> : d \in [1..(n - 1) -> DirNames], f \in FileNames}
RelPaths == UNION {RelPathsOf(n) : n \in 1..MaxComponents}

PathSets(r) ==
    {{r \o s[i] : i \in DOMAIN s} : s \in UNION {[1..k -> RelPaths] : k \in 0..MaxPaths}}

\* Ord for Path: component by component
RECURSIVE PathLess(_, _)
PathLess(a, b) ==
    IF a = << >> THEN b # << >>
    ELSE IF b = << >> THEN FALSE
    ELSE IF StrLess(Head(a), Head(b)) THEN TRUE
    ELSE IF StrLess(Head(b), Head(a)) THEN FALSE
    ELSE PathLess(Tail(a), Tail(b))

\* files.sort_by(|a, b| a.cmp(b)) on a list of distinct paths
RECURSIVE SortedPaths(_)
SortedPaths(S) ==
    IF S = {} THEN << >>
    ELSE LET least == CHOOSE p \in S : \A o \in S \ {p} : PathLess(p, o)
         IN  <<least>> \o SortedPaths(S \ {least})

\* every list holding each path of S once
Orderings(S) ==
    {s \in [1..Cardinality(S) -> S] : \A i, j \in DOMAIN s : s[i] = s[j] => i = j}

DepthOptions == {{}} \cup {{m} : m \in 0..MaxComponents}

\* the variables of main that a specification leaves alone
MainIdle ==
    /\ args = [root |-> {}]
    /\ cwd = << >>
    /\ start = << >>
    /\ git_root = {}
    /\ listed_by = "none"
    /\ git_q1 = "none"
    /\ git_q2 = "none"
    /\ mode = "none"

OrderIdle ==
    /\ pathSet = {}
    /\ filesB = << >>
    /\ treeB = TreeNew(<< >>)
    /\ textB = << >>
    /\ pcB = "start"

FilterIdle ==
    /\ fpath = << >>
    /\ opts = [include_assets |-> FALSE, include_binaries |-> FALSE,
               hide_secrets |-> FALSE]
    /\ secret = FALSE
    /\ relevant = FALSE
    /\ fpc = "start"

\* main after main.rs:124: the filtered list, sorted
TreeInit ==
    /\ root \in Roots
    /\ pathSet \in PathSets(root)
    /\ max_depth \in DepthOptions
    /\ files = SortedPaths(pathSet)
    /\ tree = TreeNew(<< >>)
    /\ text = << >>
    /\ filesB = << >>
    /\ treeB = TreeNew(<< >>)
    /\ textB = << >>
    /\ pc = "sorted"
    /\ pcB = "start"
    /\ MainIdle
    /\ FilterIdle

\* main.rs:126
Build ==
    /\ pc = "sorted"
    /\ tree' = build_tree(files, root, max_depth)
    /\ pc' = "built"
    /\ UNCHANGED <<root, files, max_depth, text>>
    /\ UNCHANGED <<mainVars, orderVars, filterVars>>

\* main.rs:157
Render ==
    /\ pc = "built"
    /\ LET r == render_tree_text(tree, INDENT_SPACES, max_depth)
       IN  tree' = r.tree /\ text' = r.text
    /\ pc' = "rendered"
    /\ UNCHANGED <<root, files, max_depth>>
    /\ UNCHANGED <<mainVars, orderVars, filterVars>>

\* build_tree on the same paths in any order, once the first run is over
BuildB ==
    /\ pc = "rendered"
    /\ pcB = "start"
    /\ \E order \in Orderings(pathSet) :
          /\ filesB' = order
          /\ treeB' = build_tree(order, root, max_depth)
    /\ pcB' = "built"
    /\ UNCHANGED <<pathSet, textB>>
    /\ UNCHANGED <<mainVars, treeVars, filterVars>>

\* render_tree_text on that tree
RenderB ==
    /\ pcB = "built"
    /\ LET r == render_tree_text(treeB, INDENT_SPACES, max_depth)
       IN  treeB' = r.tree /\ textB' = r.text
    /\ pcB' = "rendered"
    /\ UNCHANGED <<pathSet, filesB>>
    /\ UNCHANGED <<mainVars, treeVars, filterVars>>

TreeNext == Build \/ Render \/ BuildB \/ RenderB

TreeSpec == TreeInit /\ [][TreeNext]_vars

-----------------------------------------------------------------------------
(* Reading a rendered text back: its lines, and for every line its         *)
(* indentation, the entry it names, the line it belongs to (the nearest    *)
(* line above that is indented less) and the path of names that leads to   *)
(* it from the first line.                                                 *)

RECURSIVE SplitFrom(_, _, _, _)
SplitFrom(s, i, cur, acc) ==
    IF i > Len(s) THEN Append(acc, cur)
    ELSE IF s[i] = "\n" THEN SplitFrom(s, i + 1, << >>, Append(acc, cur))
    ELSE SplitFrom(s, i + 1, Append(cur, s[i]), acc)

SplitLines(s) == SplitFrom(s, 1, << >>, << >>)

RECURSIVE LeadingSpaces(_, _)
LeadingSpaces(l, i) ==
    IF i <= Len(l) /\ l[i] = " " THEN LeadingSpaces(l, i + 1) ELSE i - 1

\* the last of the lines 1..j that is indented less than ind; 0 if none
RECURSIVE LastLess(_, _, _)
LastLess(acc, j, ind) ==
    IF j = 0 THEN 0
    ELSE IF acc[j].indent < ind THEN j
    ELSE LastLess(acc, j - 1, ind)

RECURSIVE ParseFrom(_, _, _)
ParseFrom(ls, i, acc) ==
    IF i > Len(ls) THEN acc
    ELSE LET l == ls[i]
             ind == LeadingSpaces(l, 1)
             isDir == l # << >> /\ l[Len(l)] = "/"
             name == SubSeq(l, ind + 1, IF isDir THEN Len(l) - 1 ELSE Len(l))
             par == LastLess(acc, i - 1, ind)
             path == IF i = 1 THEN << >>
                     ELSE IF par = 0 THEN <<name>>
                     ELSE Append(acc[par].path, name)
         IN  ParseFrom(ls, i + 1,
                       Append(acc, [line |-> l, indent |-> ind, isDir |-> isDir,
                                    name |-> name, parent |-> par, path |-> path]))

Parse(txt) == ParseFrom(SplitLines(txt), 1, << >>)

FileLinesAt(P, path) == {i \in 2..Len(P) : ~P[i].isDir /\ P[i].path = path}
DirLinesAt(P, path) == {i \in 2..Len(P) : P[i].isDir /\ P[i].path = path}

\* the file entries of a tree: <<node, index>>, and the path each stands for
TreeEntries(t) ==
    UNION {{<<n, i>> : i \in DOMAIN t.files[n]} : n \in DOMAIN t.files}
EntryPath(t, e) == Append(e[1], t.files[e[1]][e[2]])
EntriesAt(t, path) == {e \in TreeEntries(t) : EntryPath(t, e) = path}

RelSet == {strip_prefix(p, root) : p \in pathSet}
Kept(rel) == \A m \in max_depth : Len(rel) <= m

\* the first run's tree or text is new in this state
BuiltA == pc \in {"built", "rendered"} /\ pcB = "start"
RenderedA == pc = "rendered" /\ pcB = "start"
\* the second run has a tree, a text
BuiltB == pcB \in {"built", "rendered"}
RenderedB == pcB = "rendered"

-----------------------------------------------------------------------------
(* C6: every input path of at most max_depth components is exactly one     *)
(* file entry of the tree, in the node its directory components lead to,   *)
(* and exactly one file line of the text, indented for that depth; a       *)
(* deeper input path is nowhere; nothing else is a file entry or line.     *)

TreeRoundTrip(t) ==
    /\ \A rel \in RelSet :
          Cardinality(EntriesAt(t, rel)) = IF Kept(rel) THEN 1 ELSE 0
    /\ \A e \in TreeEntries(t) : EntryPath(t, e) \in RelSet

TextRoundTrip(txt) ==
    LET P == Parse(txt)
    IN  /\ \A rel \in RelSet :
              /\ Cardinality(FileLinesAt(P, rel)) = IF Kept(rel) THEN 1 ELSE 0
              /\ \A i \in FileLinesAt(P, rel) :
                    P[i].indent = INDENT_SPACES * Len(rel)
        /\ \A i \in 2..Len(P) : ~P[i].isDir => P[i].path \in RelSet

\* C6: every input path of at most max_depth components is exactly one
\* file of the tree and one line of the text, at its own directory and
\* indentation; deeper paths are absent; nothing else is a file.
C6_RoundTrip ==
    /\ BuiltA => TreeRoundTrip(tree)
    /\ RenderedA => TextRoundTrip(text)
    /\ BuiltB => TreeRoundTrip(treeB)
    /\ RenderedB => TextRoundTrip(textB)

\* a rendered run in which one input path is kept and another is pruned
C6_Witness ==
    /\ pcB = "rendered"
    /\ filesB # files
    /\ \E a, b \in RelSet : Kept(a) /\ ~Kept(b)

-----------------------------------------------------------------------------
(* C7: with max_depth = D the tree and the text hold exactly the           *)
(* directories of depth <= D that lie above an input file, also the ones   *)
(* left empty; nothing is printed below depth D; D = 0 prints the root     *)
(* line alone.                                                             *)

\* the directories above the input files, down to depth m
AncestorsTo(m) ==
    UNION {{SubSeq(rel, 1, k) : k \in {j \in 1..(Len(rel) - 1) : j <= m}} :
           rel \in RelSet}

DepthLimitTree(t, m) == DOMAIN t.files \ {<< >>} = AncestorsTo(m)

DepthLimitText(txt, m) ==
    LET P == Parse(txt)
    IN  /\ \A d \in AncestorsTo(m) : Cardinality(DirLinesAt(P, d)) = 1
        /\ \A i \in 2..Len(P) :
              /\ P[i].indent <= INDENT_SPACES * m
              /\ P[i].isDir => P[i].path \in AncestorsTo(m)
        /\ m = 0 => txt = root_name(root) \o <<"/">>

\* C7: with max_depth = D the tree and the text hold exactly the
\* directories that are ancestors of an input file at depth at most D, no
\* line is indented beyond D levels, and D = 0 leaves the root line alone.
C7_DepthLimit ==
    \A m \in max_depth :
        /\ BuiltA => DepthLimitTree(tree, m)
        /\ RenderedA => DepthLimitText(text, m)
        /\ BuiltB => DepthLimitTree(treeB, m)
        /\ RenderedB => DepthLimitText(textB, m)

\* a rendered run with a depth limit that leaves a directory empty
C7_Witness ==
    /\ pcB = "rendered"
    /\ \E m \in max_depth, rel \in RelSet :
          /\ m >= 1 /\ Len(rel) = m + 1
          /\ tree.files[SubSeq(rel, 1, m)] = << >>
          /\ DirLinesAt(Parse(text), SubSeq(rel, 1, m)) # {}

-----------------------------------------------------------------------------
(* C8: the first line is the root's name and "/"; every other line sits    *)
(* 5 spaces deeper than the directory line it belongs to, that is at       *)
(* 5 * (L + 1) spaces for an entry of a node at level L; every directory   *)
(* of the tree is one line with a trailing "/", followed by its subtree;   *)
(* under one node the directories come first, in ascending code point      *)
(* order of their names, then the files, in non-decreasing order of their  *)
(* lowercased names.                                                       *)

RenderFormat(t, txt) ==
    LET P == Parse(txt)
    IN  /\ P[1].line = t.name \o <<"/">>
        /\ t.name = IF root = << >> THEN <<"/">> ELSE root[Len(root)]
        /\ \A i \in 2..Len(P) :
              /\ P[i].parent >= 1
              /\ P[P[i].parent].isDir
              /\ P[i].indent = P[P[i].parent].indent + 5
              /\ P[i].indent = 5 * (Len(P[P[i].parent].path) + 1)
              /\ P[i].name # << >>
              /\ IF P[i].isDir THEN P[i].path \in DOMAIN t.files
                 ELSE EntriesAt(t, P[i].path) # {}
        /\ \A n \in DOMAIN t.files :
              /\ n # << >> => Cardinality(DirLinesAt(P, n)) = 1
              /\ \A k \in DOMAIN t.files[n] :
                    LET path == Append(n, t.files[n][k])
                    IN  Cardinality(FileLinesAt(P, path))
                          = Cardinality(EntriesAt(t, path))
        /\ \A i, j \in 2..Len(P) :
              (i < j /\ P[i].parent = P[j].parent) =>
                 /\ P[j].isDir => P[i].isDir
                 /\ (P[i].isDir /\ P[j].isDir) => StrLess(P[i].name, P[j].name)
                 /\ (~P[i].isDir /\ ~P[j].isDir) =>
                       StrLeq(to_lowercase(P[i].name), to_lowercase(P[j].name))

\* C8: the first line is the root name and "/"; every other line is
\* indented INDENT_SPACES per level; in a node directories come first in
\* code point order, then files in the order of their lowercased names.
C8_RenderFormat ==
    /\ RenderedA => RenderFormat(tree, text)
    /\ RenderedB => RenderFormat(treeB, textB)

\* a rendered text of a node with two files whose lowercased order is not
\* their code point order
C8_Witness ==
    /\ pcB = "rendered"
    /\ \E n \in DOMAIN treeB.files :
          /\ Len(treeB.files[n]) = 2
          /\ StrLess(treeB.files[n][2], treeB.files[n][1])
          /\ LET P == Parse(textB)
             IN  \E i, j \in 2..Len(P) :
                    /\ i < j
                    /\ P[i].path = Append(n, treeB.files[n][1])
                    /\ P[j].path = Append(n, treeB.files[n][2])

-----------------------------------------------------------------------------
(* C10: the order of the input list does not matter.                       *)

SameTree(t1, t2) ==
    /\ t1.name = t2.name
    /\ DOMAIN t1.files = DOMAIN t2.files
    /\ \A n \in DOMAIN t1.files : Range(t1.files[n]) = Range(t2.files[n])

\* two file names of one directory that differ only in letter case
CaseTwins ==
    \E a, b \in RelSet :
        /\ a # b
        /\ SubSeq(a, 1, Len(a) - 1) = SubSeq(b, 1, Len(b) - 1)
        /\ to_lowercase(a[Len(a)]) = to_lowercase(b[Len(b)])

Occurrences(ls, l) == Cardinality({i \in DOMAIN ls : ls[i] = l})

\* C10 as claimed: any two orderings of one set of paths, also one with
\* file names that differ only in letter case, give the same tree and the
\* same text.
C10_AnyOrderSameText ==
    /\ BuiltB => SameTree(tree, treeB)
    /\ RenderedB => text = textB

\* C10 as amended: any two orderings give the same tree; they give the
\* same text when no two file names of one directory differ only in letter
\* case, and otherwise texts with the same lines that are equal once
\* lowercased (only the lines of such files may change places).
C10_AnyOrderSameTree ==
    /\ BuiltB => SameTree(tree, treeB)
    /\ RenderedB =>
          /\ ~CaseTwins => text = textB
          /\ to_lowercase(text) = to_lowercase(textB)
          /\ LET la == SplitLines(text)
                 lb == SplitLines(textB)
             IN  \A l \in Range(la) \cup Range(lb) :
                    Occurrences(la, l) = Occurrences(lb, l)

\* both orders rendered, the orders differ, and a node holds two files
C10_Witness ==
    /\ pcB = "rendered"
    /\ filesB # files
    /\ ~CaseTwins
    /\ \E n \in DOMAIN tree.files : Len(tree.files[n]) = 2

-----------------------------------------------------------------------------
(* The filter specification: one path and one FilterOptions through        *)
(* is_secret_path and the retain of main.rs:107-116.                       *)

MaxFragments == 3

\* File names are made of these pieces.
Fragments == {DotEnv, <<".">>, SecretWord, <<"S">>, <<"-">>,
              <<"l","o","c","k">>, <<"j","s","o","n">>, <<EAcute>>}

RECURSIVE Concat(_)
Concat(ss) == IF ss = << >> THEN << >> ELSE Head(ss) \o Concat(Tail(ss))

CandidateNames ==
    UNION {{Concat(fr) : fr \in [1..n -> Fragments]} : n \in 1..MaxFragments}

\* the directory part: none, or a directory with a secret-like name
CandidateDirs == {<< >>, <<SecretWord>>}

FilterInit ==
    /\ fpath \in {d \o <<n>> : d \in CandidateDirs, n \in CandidateNames}
    /\ opts \in FilterOptions
    /\ secret = FALSE
    /\ relevant = FALSE
    /\ fpc = "start"
    /\ MainIdle
    /\ OrderIdle
    /\ root = << >> /\ files = << >> /\ max_depth = {}
    /\ tree = TreeNew(<< >>) /\ text = << >> /\ pc = "idle"

\* is_secret_path on the path
CheckSecret ==
    /\ fpc = "start"
    /\ secret' = is_secret_path(fpath)
    /\ fpc' = "checked"
    /\ UNCHANGED <<fpath, opts, relevant>>
    /\ UNCHANGED <<mainVars, treeVars, orderVars>>

\* the closure of files.retain (main.rs:107-116) on the path
Retain ==
    /\ fpc = "checked"
    /\ relevant' = is_relevant_path(fpath, opts)
    /\ fpc' = "retained"
    /\ UNCHANGED <<fpath, opts, secret>>
    /\ UNCHANGED <<mainVars, treeVars, orderVars>>

FilterNext == CheckSecret \/ Retain

FilterSpec == FilterInit /\ [][FilterNext]_vars

\* letters, of any alphabet
IsLetter(c) == c \in Range(Uppers) \cup Range(Lowers) \cup {EAcute, EAcuteUpper}
\* the ASCII letters a to z
IsAToZ(c) == c \in Range(Lowers)

\* w occurs in s with, on each side, the end of s or a character that is
\* not a Letter
StandaloneToken(s, w, Letter(_)) ==
    \E k \in 1..Len(s) :
        /\ k + Len(w) - 1 <= Len(s)
        /\ SubSeq(s, k, k + Len(w) - 1) = w
        /\ k = 1 \/ ~Letter(s[k - 1])
        /\ k + Len(w) > Len(s) \/ ~Letter(s[k + Len(w)])

SecretLike(lower, Letter(_)) ==
    \/ lower = <<".","e","n","v">>
    \/ starts_with(lower, <<".","e","n","v",".">>)
    \/ StandaloneToken(lower, <<"s","e","c","r","e","t">>, Letter)
    \/ StandaloneToken(lower, <<"s","e","c","r","e","t","s">>, Letter)

\* C1: with hide_secrets, is_relevant_path rejects every secret-like path,
\* whatever include_assets, include_binaries and the extension are.
C1_HiddenSecretsRejected ==
    (fpc = "retained" /\ opts.hide_secrets /\ secret) => ~relevant

\* C2 as claimed: without hide_secrets, is_relevant_path accepts every
\* secret-like path, whatever its extension or suffix is.
C2_SecretsAccepted ==
    (fpc = "retained" /\ ~opts.hide_secrets /\ secret) => relevant

\* C2 as amended: without hide_secrets, is_relevant_path accepts every
\* secret-like path whose lowercased base name does not end in ".lock".
C2_SecretsAcceptedUnlessLock ==
    (/\ fpc = "retained"
     /\ ~opts.hide_secrets
     /\ secret
     /\ ~ends_with(to_lowercase(fpath[Len(fpath)]), <<".","l","o","c","k">>))
    => relevant

\* a secret-like name that only the secret rule can accept
C2_Witness ==
    /\ fpc = "retained"
    /\ ~opts.hide_secrets /\ ~opts.include_binaries /\ ~opts.include_assets
    /\ secret
    /\ relevant
    /\ \A e \in extension(fpath[Len(fpath)]) : to_lowercase(e) \notin relevant_exts

\* C9 as claimed: is_secret_path is true exactly when the lowercased base
\* name is ".env", starts with ".env.", or holds "secret" or "secrets"
\* between the ends of the name or non-letter characters.
C9_SecretIffToken ==
    fpc # "start" =>
        (secret <=> SecretLike(to_lowercase(fpath[Len(fpath)]), IsLetter))

\* C9 as amended: ... between the ends of the name or characters other
\* than the ASCII letters a to z (a letter outside ASCII bounds a token).
C9_SecretIffAsciiToken ==
    fpc # "start" =>
        (secret <=> SecretLike(to_lowercase(fpath[Len(fpath)]), IsAToZ))

\* a path in a directory, found secret-like by a token inside its name
C9_Witness ==
    /\ fpc # "start"
    /\ secret
    /\ Len(fpath) > 1
    /\ LET lower == to_lowercase(fpath[Len(fpath)])
       IN  /\ ~starts_with(lower, DotEnv)
           /\ ~starts_with(lower, SecretWord)
           /\ ~ends_with(lower, SecretWord)
           /\ ~ends_with(lower, SecretWord \o <<"s">>)

-----------------------------------------------------------------------------
(* The main specification: main from the parsed arguments to its output,   *)
(* on a small disk, with a git that may be missing and whose queries may   *)
(* fail.                                                                   *)

\* deny_dirs (main.rs:246-277)
deny_dirs == {
    <<".","g","i","t">>, <<".","h","g">>, <<".","s","v","n">>,
    <<"_","_","p","y","c","a","c","h","e","_","_">>,
    <<".","c","a","c","h","e">>,
    <<".","m","y","p","y","_","c","a","c","h","e">>,
    <<".","p","y","t","e","s","t","_","c","a","c","h","e">>,
    <<".","r","u","f","f","_","c","a","c","h","e">>, <<".","t","o","x">>,
    <<".","v","e","n","v">>, <<"v","e","n","v">>, <<"e","n","v">>,
    <<"n","o","d","e","_","m","o","d","u","l","e","s">>,
    <<".","p","n","p","m","-","s","t","o","r","e">>, <<"d","i","s","t">>,
    <<"b","u","i","l","d">>, <<"o","u","t">>, <<".","n","e","x","t">>,
    <<".","n","u","x","t">>, <<".","a","n","g","u","l","a","r">>,
    <<".","p","a","r","c","e","l","-","c","a","c","h","e">>,
    <<"t","a","r","g","e","t">>, <<"b","i","n">>, <<"o","b","j">>,
    <<".","g","r","a","d","l","e">>, <<".","i","d","e","a">>,
    <<".","v","s","c","o","d","e">>,
    <<".","t","e","r","r","a","f","o","r","m">>,
    <<".","s","e","r","v","e","r","l","e","s","s">>,
    <<".","d","o","c","u","s","a","u","r","u","s">>}

\* The disk: /repo is a git working tree, /repo/sub a directory of it,
\* /link a symbolic link to /repo/sub, /plain a directory outside any
\* working tree; /gone does not exist.
Repo == <<<<"r","e","p","o">>>>
Sub == Repo \o <<<<"s","u","b">>>>
Link == <<<<"l","i","n","k">>>>
Plain == <<<<"p","l","a","i","n">>>>
Gone == <<<<"g","o","n","e">>>>

ExistingDirs == {Repo, Sub, Plain}

\* git ls-files --cached --others --exclude-standard, in /repo
TrackedLines == {<<<<"R","E","A","D","M","E",".","m","d">>>>,
                 <<<<"s","u","b">>, <<"m","a","i","n",".","r","s">>>>}
\* git ls-files --ignored --exclude-standard, in /repo
IgnoredLines == {<<<<".","e","n","v">>>>,
                 <<<<"t","a","r","g","e","t">>, <<"a","p","p",".","j","s","o","n">>>>}
\* the files on the disk
DiskFiles ==
    {Repo \o l : l \in TrackedLines \cup IgnoredLines}
    \cup {Repo \o <<<<".","g","i","t">>, <<"c","o","n","f","i","g">>>>,
          Plain \o <<<<"a",".","t","x","t">>>>}

\* fs::canonicalize, as an Option
canonicalize(p) ==
    IF p = Link THEN {Sub}
    ELSE IF p \in ExistingDirs THEN {p}
    ELSE {}

\* git rev-parse --show-toplevel run in directory d, as an Option
show_toplevel(d) == IF starts_with(d, Repo) THEN {Repo} ELSE {}

\* detect_git_root; gitRuns: the git command can be spawned
detect_git_root(d, gitRuns) ==
    IF ~gitRuns \/ d \notin ExistingDirs THEN {} ELSE show_toplevel(d)

\* fs_dir_allow for an entry named name at depth > 0
fs_dir_allow(name) == to_lowercase(name) \notin deny_dirs

\* the files list_files_fs collects: those under r that the walk reaches
\* through entries fs_dir_allow lets pass
WalkSet(r) ==
    {f \in DiskFiles :
        /\ Len(f) > Len(r)
        /\ starts_with(f, r)
        /\ \A i \in (Len(r) + 1)..Len(f) : fs_dir_allow(f[i])}

\* list_files_git with the two queries ending q1 and q2 ("ok", "nonzero":
\* a non-zero exit status, "spawn_error": output() returned Err).  The
\* result: ok is FALSE for Err, else paths is the sorted, deduplicated list.
list_files_git(r, include_ignored, include_secret_names, q1, q2) ==
    LET first == IF q1 = "ok" THEN {r \o l : l \in TrackedLines} ELSE {}
        wanted == {r \o l : l \in IgnoredLines}
        second == IF q2 = "ok"
                  THEN {p \in wanted : include_ignored
                                        \/ (include_secret_names /\ is_secret_path(p))}
                  ELSE {}
    IN  IF q1 = "spawn_error" THEN [ok |-> FALSE, paths |-> << >>]
        ELSE IF include_ignored \/ include_secret_names
        THEN IF q2 = "spawn_error" THEN [ok |-> FALSE, paths |-> << >>]
             ELSE [ok |-> TRUE, paths |-> SortedPaths(first \cup second)]
        ELSE [ok |-> TRUE, paths |-> SortedPaths(first)]

QueryOutcomes == {"ok", "nonzero", "spawn_error"}

\* Vec::retain with is_relevant_path
RECURSIVE retain(_, _)
retain(v, fo) ==
    IF v = << >> THEN << >>
    ELSE IF is_relevant_path(Head(v), fo) THEN <<Head(v)>> \o retain(Tail(v), fo)
    ELSE retain(Tail(v), fo)

\* files.sort_by(|a, b| a.cmp(b)) on a list of distinct paths
sort_paths(v) == SortedPaths(Range(v))

\* the truncation of main.rs:120-124
truncate(v, max_files) ==
    IF \E m \in max_files : Len(v) > m
    THEN SubSeq(v, 1, CHOOSE m \in max_files : TRUE)
    ELSE v

MainArgs ==
    [root : {{}} \cup {{p} : p \in {Repo, Sub, Link, Plain, Gone}},
     no_git : BOOLEAN,
     include_ignored : BOOLEAN,
     hide_secrets : BOOLEAN,
     include_assets : BOOLEAN,
     include_binaries : BOOLEAN,
     max_files : {{}, {1}}]

MainInit ==
    /\ args \in MainArgs
    /\ cwd \in IF args.root = {} THEN ExistingDirs ELSE {Repo}
    /\ max_depth \in {{}, {1}}
    /\ start = << >>
    /\ git_root = {}
    /\ root = << >>
    /\ files = << >>
    /\ listed_by = "none"
    /\ git_q1 = "none"
    /\ git_q2 = "none"
    /\ mode = "none"
    /\ tree = TreeNew(<< >>)
    /\ text = << >>
    /\ pc = "args"
    /\ OrderIdle
    /\ FilterIdle

\* main.rs:84-88
ResolveStart ==
    /\ pc = "args"
    /\ LET given == IF args.root = {} THEN cwd ELSE CHOOSE p \in args.root : TRUE
       IN  start' = IF canonicalize(given) = {} THEN given
                    ELSE CHOOSE p \in canonicalize(given) : TRUE
    /\ pc' = "started"
    /\ UNCHANGED <<args, cwd, git_root, listed_by, git_q1, git_q2, mode>>
    /\ UNCHANGED <<root, files, max_depth, tree, text>>
    /\ UNCHANGED <<orderVars, filterVars>>

\* main.rs:91-96
DetectRoot ==
    /\ pc = "started"
    /\ \E gitRuns \in BOOLEAN :
          LET found == IF args.no_git THEN {} ELSE detect_git_root(start, gitRuns)
          IN  /\ git_root' = found
              /\ root' = IF found = {} THEN start ELSE CHOOSE p \in found : TRUE
    /\ pc' = "rooted"
    /\ UNCHANGED <<args, cwd, start, listed_by, git_q1, git_q2, mode>>
    /\ UNCHANGED <<files, max_depth, tree, text>>
    /\ UNCHANGED <<orderVars, filterVars>>

\* main.rs:99-101: the git listing, and the walk if it returns Err
ListFilesGit ==
    /\ pc = "rooted"
    /\ git_root # {} /\ ~args.no_git
    /\ \E q1 \in QueryOutcomes, q2 \in QueryOutcomes, walk \in Orderings(WalkSet(root)) :
          LET secondRuns == q1 # "spawn_error"
                            /\ (args.include_ignored \/ ~args.hide_secrets)
              listed == list_files_git(root, args.include_ignored,
                                       ~args.hide_secrets, q1, q2)
          IN  /\ git_q1' = q1
              /\ git_q2' = IF secondRuns THEN q2 ELSE "none"
              /\ files' = IF listed.ok THEN listed.paths ELSE walk
              /\ listed_by' = IF listed.ok THEN "git" ELSE "fs"
    /\ pc' = "listed"
    /\ UNCHANGED <<args, cwd, start, git_root, mode>>
    /\ UNCHANGED <<root, max_depth, tree, text>>
    /\ UNCHANGED <<orderVars, filterVars>>

\* main.rs:102-104: the walk
ListFilesFs ==
    /\ pc = "rooted"
    /\ ~(git_root # {} /\ ~args.no_git)
    /\ \E walk \in Orderings(WalkSet(root)) : files' = walk
    /\ listed_by' = "fs"
    /\ pc' = "listed"
    /\ UNCHANGED <<args, cwd, start, git_root, git_q1, git_q2, mode>>
    /\ UNCHANGED <<root, max_depth, tree, text>>
    /\ UNCHANGED <<orderVars, filterVars>>

\* main.rs:107-124: the relevance filter, the sort and the cap
FilterSortCap ==
    /\ pc = "listed"
    /\ files' = truncate(sort_paths(retain(files,
                    [include_assets |-> args.include_assets,
                     include_binaries |-> args.include_binaries,
                     hide_secrets |-> args.hide_secrets])), args.max_files)
    /\ pc' = "sorted"
    /\ UNCHANGED <<mainVars, orderVars, filterVars>>
    /\ UNCHANGED <<root, max_depth, tree, text>>

\* main.rs:128-162: the mode and the output
Output ==
    /\ pc = "built"
    /\ mode' = IF git_root # {} /\ ~args.no_git THEN "git-aware" ELSE "fs-heuristic"
    /\ LET r == render_tree_text(tree, INDENT_SPACES, max_depth)
       IN  tree' = r.tree /\ text' = r.text
    /\ pc' = "rendered"
    /\ UNCHANGED <<args, cwd, start, git_root, listed_by, git_q1, git_q2>>
    /\ UNCHANGED <<root, files, max_depth>>
    /\ UNCHANGED <<orderVars, filterVars>>

MainNext ==
    \/ ResolveStart
    \/ DetectRoot
    \/ ListFilesGit
    \/ ListFilesFs
    \/ FilterSortCap
    \/ Build
    \/ Output

MainSpec == MainInit /\ [][MainNext]_vars

\* C3: when git is preferred and a git root was detected, and a git
\* listing query fails (it cannot be run, or it exits non-zero), the list
\* handed to the relevance filter is the filesystem walk of the root.
C3_FailedQueryFallsBack ==
    (/\ pc = "listed"
     /\ git_root # {} /\ ~args.no_git
     /\ {git_q1, git_q2} \cap {"nonzero", "spawn_error"} # {})
    => /\ listed_by = "fs"
       /\ Range(files) = WalkSet(root)
       /\ Len(files) = Cardinality(WalkSet(root))

\* C4: the mode reported is the strategy that produced the list:
\* "git-aware" only for a list from the git listing, "fs-heuristic" for
\* every list from the walk.
C4_ModeIsStrategyUsed ==
    pc = "rendered" =>
        /\ mode = "git-aware" => listed_by = "git"
        /\ listed_by = "fs" => mode = "fs-heuristic"

\* C5: with --root given, the root of the run, and the name of the tree's
\* root node, is that path, canonicalized when possible.
C5_GivenRootIsRoot ==
    \A given \in args.root :
        LET expected == IF given = Link THEN Sub ELSE given
        IN  /\ pc \notin {"args", "started"} => root = expected
            /\ pc \in {"built", "rendered"} => tree.name = expected[Len(expected)]

=============================================================================
